---- MODULE Spec2Model ----
(***************************************************************************)
(* screeps-exporter: the collection loop of src/main.go.                   *)
(*                                                                         *)
(* src/main.go holds the two programs of the repository one after the      *)
(* other: the memory-segment exporter (lines 1-388, several shards, the    *)
(* account summary and the market orders) and the compressed-history       *)
(* exporter (lines 390-647, one shard, base64+gzip memory blob).  The      *)
(* variable `variant` says which of the two programs is running.           *)
(*                                                                         *)
(* A text is a sequence of chunks; a chunk is either the separator ","     *)
(* or a non-empty comma-free string.  A JSON document is a function from   *)
(* the keys it carries to their values, so that a key can be absent.       *)
(***************************************************************************)
EXTENDS Integers, Sequences, FiniteSets, TLC

VARIABLES
    variant,    \* "segment" | "history": which program of src/main.go runs
    environ,    \* os.Environ(): the SCREEPS_* variables that are set
    osArgs,     \* os.Args[1:]
    shards,     \* the configured shard list (history: the one `shard`)
    token,      \* the X-Token value
    pc,         \* position of main / of the collection goroutine
    i,          \* index of the shard loop in progress (1-based)
    active,     \* number of updateStats calls that have not returned
    authMe,     \* updateStats local: decoded account summary
    orders,     \* updateStats local: decoded market orders
    statsMap,   \* updateStats local: shard -> decoded Stats
    docs,       \* shard -> the document its fetch of this cycle carried
    store,      \* the registered gauges: gauge name -> (labels -> value)
    store0,     \* the store as it was when the cycle in progress started
    requests,   \* the requests of the current (or just finished) cycle
    writes,     \* the Reset/Set calls of the last step of updateStats, in order
    firstOp,    \* gauge -> first call ("reset"/"set") made on it in this cycle
    observed,   \* whether the current (or last) cycle observed its duration
    lastErr,    \* the error the last returned cycle printed ("nil": none)
    lastGood,   \* what the last successful cycle fetched
    hung,       \* the request in flight is never answered
    balance,    \* observations made so far minus cycles that had every fetch answered well
    scraped     \* <<the store a scrape just read>>, <<>> when the last step was no scrape

vars == <<variant, environ, osArgs, shards, token, pc, i, active, authMe,
          orders, statsMap, docs, store, store0, requests, writes, firstOp,
          observed, lastErr, lastGood, hung, balance, scraped>>

(***************************************************************************)
(* Bounds of the model.                                                    *)
(***************************************************************************)
\* Largest number of market orders one shard of a response carries.
MaxOrders == 2
\* Largest number of snapshots in a compressed-history list.
MaxHistory == 2
\* Largest level a number literal of a level field stands for.
MaxLevel == 8

EmptyMap == [k \in {} |-> 0]

(***************************************************************************)
(* Texts and strings.Split.                                                *)
(***************************************************************************)
RECURSIVE Join(_)
\* The Go string a text stands for.
Join(text) == IF text = <<>> THEN "" ELSE Head(text) \o Join(Tail(text))

RECURSIVE SplitComma(_, _)
\* strings.Split(text, ","): cur is the piece being read.
SplitComma(text, cur) ==
    IF text = <<>> THEN <<cur>>
    ELSE IF Head(text) = ","
         THEN <<cur>> \o SplitComma(Tail(text), "")
         ELSE SplitComma(Tail(text), cur \o Head(text))

StringsSplit(text) == SplitComma(text, "")

(***************************************************************************)
(* The process's inputs.                                                   *)
(***************************************************************************)
\* The environment variable that carries the shard configuration.
ShardVar(v) == IF v = "segment" THEN "SCREEPS_SHARDS" ELSE "SCREEPS_SHARD"

\* A process start: the SCREEPS_* variables that are set, and os.Args[1:].
Start(env, args) == [environ |-> env, osArgs |-> args]

\* The environment in which the shard variable (when shardText is a
\* one-element list) and the token variable (likewise) are set.
Env(v, shardText, tokenText) ==
    [k \in (IF shardText = <<>> THEN {} ELSE {ShardVar(v)})
           \cup (IF tokenText = <<>> THEN {} ELSE {"SCREEPS_TOKEN"}) |->
        IF k = "SCREEPS_TOKEN" THEN tokenText[1] ELSE shardText[1]]

\* Unset, empty, one shard, two shards.
ShardTexts == {<<>>, << <<>> >>, << <<"shard0">> >>, << <<"shard0", ",", "shard1">> >>}
\* Unset, empty, a token.
TokenTexts == {<<>>, << <<>> >>, << <<"tok">> >>}

\* The starts: every environment without arguments, and some command lines.
Starts(v) ==
    {Start(Env(v, s, t), <<>>) : s \in ShardTexts, t \in TokenTexts}
    \cup { Start(Env(v, <<>>, <<>>), << <<"shard1">>, <<"tok">> >>),
           Start(Env(v, << <<"shard0">> >>, << <<>> >>), << <<>>, <<"tok">> >>),
           Start(Env(v, << <<"shard0">> >>, << <<"tok">> >>), << <<"shard1">> >>),
           Start(Env(v, << <<"shard0">> >>, << <<"tok">> >>), << <<"shard1">>, <<>> >>) }

(***************************************************************************)
(* JSON documents and their decoding into the Go structs.  A field that    *)
(* the document does not carry keeps the struct's zero value.              *)
(***************************************************************************)
NumField(doc, k) == IF k \in DOMAIN doc THEN doc[k] ELSE 0
StrField(doc, k) == IF k \in DOMAIN doc THEN doc[k] ELSE ""
\* A map or struct field: absent means a nil map / the zero struct.
ObjField(doc, k) == IF k \in DOMAIN doc THEN doc[k] ELSE EmptyMap
\* A list field: absent means a nil slice.
ListField(doc, k) == IF k \in DOMAIN doc THEN doc[k] ELSE <<>>

DecodeCpu(doc) ==
    [Used   |-> NumField(doc, "used"),
     Limit  |-> NumField(doc, "limit"),
     Bucket |-> NumField(doc, "bucket")]

DecodeProgress(doc) ==
    [Level         |-> NumField(doc, "level"),
     Progress      |-> NumField(doc, "progress"),
     ProgressTotal |-> NumField(doc, "progressTotal")]

\* Room of the segment program (with Terminal).
DecodeRoom(doc) ==
    [RCL                     |-> DecodeProgress(ObjField(doc, "rcl")),
     Structures              |-> ObjField(doc, "structures"),
     Creeps                  |-> NumField(doc, "creeps"),
     EnergyAvailable         |-> NumField(doc, "energyAvailable"),
     EnergyCapacityAvailable |-> NumField(doc, "energyCapacityAvailable"),
     Storage                 |-> ObjField(doc, "storage"),
     Terminal                |-> ObjField(doc, "terminal")]

\* Room of the compressed-history program (no Terminal field).
DecodeRoomHistory(doc) ==
    [RCL                     |-> DecodeProgress(ObjField(doc, "rcl")),
     Structures              |-> ObjField(doc, "structures"),
     Creeps                  |-> NumField(doc, "creeps"),
     EnergyAvailable         |-> NumField(doc, "energyAvailable"),
     EnergyCapacityAvailable |-> NumField(doc, "energyCapacityAvailable"),
     Storage                 |-> ObjField(doc, "storage")]

\* Stats of the segment program.
DecodeStats(doc) ==
    [Tick                |-> NumField(doc, "tick"),
     Ms                  |-> NumField(doc, "ms"),
     LastGlobalResetTick |-> NumField(doc, "lastGlobalResetTick"),
     LastGlobalResetMs   |-> NumField(doc, "lastGlobalResetMs"),
     CPU                 |-> DecodeCpu(ObjField(doc, "cpu")),
     GCL                 |-> DecodeProgress(ObjField(doc, "gcl")),
     GPL                 |-> DecodeProgress(ObjField(doc, "gpl")),
     Rooms               |-> [r \in DOMAIN ObjField(doc, "rooms") |->
                                 DecodeRoom(doc["rooms"][r])]]

\* Stats of the compressed-history program (no last-global-reset fields).
DecodeStatsHistory(doc) ==
    [Tick  |-> NumField(doc, "tick"),
     Ms    |-> NumField(doc, "ms"),
     CPU   |-> DecodeCpu(ObjField(doc, "cpu")),
     GCL   |-> DecodeProgress(ObjField(doc, "gcl")),
     GPL   |-> DecodeProgress(ObjField(doc, "gpl")),
     Rooms |-> [r \in DOMAIN ObjField(doc, "rooms") |->
                   DecodeRoomHistory(doc["rooms"][r])]]

\* Memory of the compressed-history program: the history list.
DecodeMemory(doc) ==
    [History |-> [n \in DOMAIN ListField(ObjField(doc, "stats"), "history") |->
                     DecodeStatsHistory(doc["stats"]["history"][n])]]

DecodeAuthMe(doc) ==
    [Money     |-> NumField(doc, "money"),
     CPUShard  |-> ObjField(doc, "cpuShard"),
     Resources |-> ObjField(doc, "resources")]

DecodeMarketOrder(doc) ==
    [Active          |-> IF "active" \in DOMAIN doc THEN doc["active"] ELSE FALSE,
     Type            |-> StrField(doc, "type"),
     Amount          |-> NumField(doc, "amount"),
     RemainingAmount |-> NumField(doc, "remainingAmount"),
     ResourceType    |-> StrField(doc, "resourceType"),
     Price           |-> NumField(doc, "price"),
     TotalAmount     |-> NumField(doc, "totalAmount"),
     RoomName        |-> StrField(doc, "roomName")]

DecodeMarketOrders(doc) ==
    [Shards |-> [s \in DOMAIN ObjField(doc, "shards") |->
                    [n \in DOMAIN doc["shards"][s] |->
                        DecodeMarketOrder(doc["shards"][s][n])]]]

(***************************************************************************)
(* The documents the upstream API answers with.                            *)
(***************************************************************************)
AuthMeDocs ==
    { EmptyMap,
      [money |-> 100, resources |-> [energy |-> 50], cpuShard |-> [shard0 |-> 20]],
      [money |-> 1, resources |-> [money |-> 7, power |-> 2],
       cpuShard |-> [shard0 |-> 5, shard1 |-> 6]] }

OrderA ==
    [active |-> TRUE, type |-> "sell", resourceType |-> "energy", roomName |-> "W1N1",
     price |-> 3, amount |-> 10, remainingAmount |-> 4, totalAmount |-> 12]
\* Same room, resource and type as OrderA, other numbers.
OrderB ==
    [active |-> TRUE, type |-> "sell", resourceType |-> "energy", roomName |-> "W1N1",
     price |-> 5, amount |-> 20, remainingAmount |-> 7, totalAmount |-> 21]
\* An order that carries no amounts and no room.
OrderC == [type |-> "buy", resourceType |-> "power", price |-> 2]

OrderLists ==
    {l \in {<<>>, <<OrderA>>, <<OrderA, OrderB>>, <<OrderC, OrderA, OrderB>>} :
        Len(l) <= MaxOrders}

MarketDocs ==
    { EmptyMap, [shards |-> [shard0 |-> <<OrderA>>]] }
    \cup {[shards |-> [shard0 |-> <<>>, shard1 |-> l]] : l \in OrderLists \ {<<>>, <<OrderA>>}}

StatsEmpty == EmptyMap
StatsOneRoom ==
    [rooms |-> [W1N1 |-> [rcl |-> [level |-> 3], creeps |-> 5,
                          energyAvailable |-> 200, energyCapacityAvailable |-> 500]]]
StatsFull ==
    [tick |-> 7, ms |-> 8, lastGlobalResetTick |-> 1, lastGlobalResetMs |-> 2,
     cpu |-> [used |-> 3, limit |-> 20, bucket |-> 9],
     gcl |-> [level |-> 2, progress |-> 4, progressTotal |-> 6],
     gpl |-> [level |-> 1],
     rooms |-> [W1N1 |-> [rcl |-> [level |-> 4, progress |-> 1, progressTotal |-> 2],
                          structures |-> [spawn |-> 1, tower |-> 2],
                          creeps |-> 6,
                          energyAvailable |-> 300, energyCapacityAvailable |-> 550,
                          storage |-> [energy |-> 9],
                          terminal |-> [energy |-> 4]],
                W2N2 |-> [structures |-> [spawn |-> 1]]]]

StatsDocs == {StatsEmpty, StatsOneRoom, StatsFull}

HistoryLists ==
    {h \in {<<>>, <<StatsEmpty>>, <<StatsOneRoom>>, <<StatsFull>>,
            <<StatsOneRoom, StatsFull>>, <<StatsFull, StatsOneRoom>>,
            <<StatsFull, StatsFull, StatsEmpty>>} :
        Len(h) <= MaxHistory}

MemoryDocs == {EmptyMap} \cup {[stats |-> [history |-> h]] : h \in HistoryLists}

(***************************************************************************)
(* HTTP responses.  kind "transportError": http.NewRequest or client.Do    *)
(* returned an error; "malformed": the body is not the JSON the outer      *)
(* struct decodes; otherwise the body decodes.                             *)
(***************************************************************************)
TransportError == [kind |-> "transportError"]
Malformed == [kind |-> "malformed"]

AuthMeResponses ==
    {TransportError, Malformed} \cup {[kind |-> "json", doc |-> d] : d \in AuthMeDocs}

MarketResponses ==
    {TransportError, Malformed} \cup {[kind |-> "json", doc |-> d] : d \in MarketDocs}

\* A JSON text: not JSON at all, JSON of the wrong types, or a document.
JsonTexts(documents) ==
    {[kind |-> "invalid"], [kind |-> "mismatch"]}
    \cup {[kind |-> "json", doc |-> d] : d \in documents}

\* The data string of a memory-segment envelope ("empty": no data).
SegmentDatas == {[kind |-> "empty"]} \cup JsonTexts(StatsDocs)

SegmentResponses ==
    {TransportError, Malformed}
    \cup {[kind |-> "envelope", data |-> d] : d \in SegmentDatas}

\* What the bytes of a base64 text are: not a gzip stream, a gzip stream
\* that breaks off, or the gzip of a JSON text.
GzipBytes ==
    {[kind |-> "notGzip"], [kind |-> "corrupt"]}
    \cup {[kind |-> "gzip", text |-> t] : t \in JsonTexts(MemoryDocs)}

\* The data string of a memory envelope: an optional "gz:" marker and a
\* text that is valid base64 or not.
HistoryDatas ==
    {[gz |-> g, b64 |-> [kind |-> "invalid"]] : g \in BOOLEAN}
    \cup {[gz |-> g, b64 |-> [kind |-> "base64", bytes |-> z]] :
           g \in BOOLEAN, z \in GzipBytes}

HistoryResponses ==
    {TransportError, Malformed}
    \cup {[kind |-> "envelope", data |-> d] : d \in HistoryDatas}

(***************************************************************************)
(* The fetch functions: [err, val], err = "nil" when the call succeeded.   *)
(***************************************************************************)
getStatsFromAuthMe(resp) ==
    IF resp.kind = "transportError"
    THEN [err |-> "transport", val |-> DecodeAuthMe(EmptyMap)]
    ELSE IF resp.kind = "malformed"
    THEN [err |-> "json", val |-> DecodeAuthMe(EmptyMap)]
    ELSE [err |-> "nil", val |-> DecodeAuthMe(resp.doc)]

getMarketOrders(resp) ==
    IF resp.kind = "transportError"
    THEN [err |-> "transport", val |-> DecodeMarketOrders(EmptyMap)]
    ELSE IF resp.kind = "malformed"
    THEN [err |-> "json", val |-> DecodeMarketOrders(EmptyMap)]
    ELSE [err |-> "nil", val |-> DecodeMarketOrders(resp.doc)]

\* Mutation of UnmarshalStats: the error of json.Unmarshal is dropped.
UnmarshalStats_ErrDropped(data) ==
    [err |-> "nil",
     val |-> IF data.kind = "json" THEN DecodeStats(data.doc) ELSE DecodeStats(EmptyMap)]

\* json.Unmarshal([]byte(memoryResponse.Data), &parsed)
UnmarshalStats(data) ==
    IF data.kind = "json"
    THEN [err |-> "nil", val |-> DecodeStats(data.doc)]
    ELSE [err |-> "json: " \o data.kind, val |-> DecodeStats(EmptyMap)]

getStatsFromMemorySegment(resp) ==
    IF resp.kind = "transportError"
    THEN [err |-> "transport", val |-> DecodeStats(EmptyMap)]
    ELSE IF resp.kind = "malformed"
    THEN [err |-> "envelope", val |-> DecodeStats(EmptyMap)]
    ELSE UnmarshalStats(resp.data)

\* Mutation of TrimPrefix: the "gz:" marker is left in place.
TrimPrefix_Kept(data) == data

\* strings.TrimPrefix(memoryResponse.Data, "gz:")
TrimPrefix(data) == [data EXCEPT !.gz = FALSE]

\* base64.StdEncoding.DecodeString: ':' is no base64 character, so a text
\* that still carries the "gz:" marker does not decode.
Base64Decode(data) ==
    IF data.gz \/ data.b64.kind = "invalid"
    THEN [err |-> "base64", val |-> [kind |-> "notGzip"]]
    ELSE [err |-> "nil", val |-> data.b64.bytes]

\* gzip.NewReader followed by json.NewDecoder(r).Decode(&memory)
GunzipMemory(z) ==
    IF z.kind = "notGzip" THEN [err |-> "gzip", val |-> DecodeMemory(EmptyMap)]
    ELSE IF z.kind = "corrupt" THEN [err |-> "gzip: corrupt", val |-> DecodeMemory(EmptyMap)]
    ELSE IF z.text.kind = "json"
    THEN [err |-> "nil", val |-> DecodeMemory(z.text.doc)]
    ELSE [err |-> "json: " \o z.text.kind, val |-> DecodeMemory(EmptyMap)]

\* Lines 539-574 of the compressed-history updateStats: fetch and decode.
FetchMemory(resp) ==
    IF resp.kind = "transportError"
    THEN [err |-> "transport", val |-> DecodeMemory(EmptyMap)]
    ELSE IF resp.kind = "malformed"
    THEN [err |-> "envelope", val |-> DecodeMemory(EmptyMap)]
    ELSE LET z == Base64Decode(TrimPrefix(resp.data))
         IN  IF z.err /= "nil"
             THEN [err |-> z.err, val |-> DecodeMemory(EmptyMap)]
             ELSE GunzipMemory(z.val)

(***************************************************************************)
(* The metric store: gauge name -> (label set -> value).                   *)
(***************************************************************************)
SegmentGauges ==
    {"cpu_shard", "resources", "market_orders", "tick", "ms", "global_reset_tick",
     "global_reset_ms", "cpu", "gcl", "gpl", "rcl", "energy", "creeps",
     "structures", "storage", "terminal"}

HistoryGauges ==
    {"tick", "ms", "cpu", "gcl", "gpl", "rcl", "energy", "creeps", "structures",
     "storage"}

\* The gauges setup() registers.
Gauges(v) == IF v = "segment" THEN SegmentGauges ELSE HistoryGauges

ResetOp(g) == [op |-> "reset", gauge |-> g]
SetOp(g, l, v) == [op |-> "set", gauge |-> g, labels |-> l, value |-> v]

\* GaugeVec.With(labels).Set(v): upsert of one series.
SetSeries(series, l, v) ==
    [x \in DOMAIN series \cup {l} |-> IF x = l THEN v ELSE series[x]]

\* One call on the store.
Apply(st, w) ==
    IF w.op = "reset"
    THEN [st EXCEPT ![w.gauge] = EmptyMap]
    ELSE [st EXCEPT ![w.gauge] = SetSeries(@, w.labels, w.value)]

RECURSIVE ApplyAll(_, _)
ApplyAll(st, ws) == IF ws = <<>> THEN st ELSE ApplyAll(Apply(st, Head(ws)), Tail(ws))

RECURSIVE FirstOps(_, _)
\* The first call of the cycle on each gauge, after the calls ws.
FirstOps(f, ws) ==
    IF ws = <<>> THEN f
    ELSE LET w == Head(ws)
         IN  FirstOps(IF f[w.gauge] = "none" THEN [f EXCEPT ![w.gauge] = w.op] ELSE f,
                      Tail(ws))

RECURSIVE Flatten(_)
Flatten(ss) == IF ss = <<>> THEN <<>> ELSE Head(ss) \o Flatten(Tail(ss))

\* The orders a Go `range` over a map with key set S may take.
IterOrders(S) ==
    {f \in [1..Cardinality(S) -> S] : \A a, b \in 1..Cardinality(S) : a /= b => f[a] /= f[b]}

(***************************************************************************)
(* The projection: the store calls of updateStats, in the order the code   *)
(* makes them.  The *Order arguments are the orders the map ranges take.   *)
(***************************************************************************)
\* Mutation of ResetWrites: structures is not reset.
ResetWrites_NoStructures ==
    <<ResetOp("cpu_shard"), ResetOp("resources"), ResetOp("market_orders"),
      ResetOp("rcl"), ResetOp("energy"), ResetOp("creeps"), ResetOp("storage"),
      ResetOp("terminal")>>

\* Mutation of ResetWrites: resources is not reset.
ResetWrites_NoResources ==
    <<ResetOp("cpu_shard"), ResetOp("market_orders"), ResetOp("rcl"),
      ResetOp("energy"), ResetOp("creeps"), ResetOp("structures"),
      ResetOp("storage"), ResetOp("terminal")>>

\* Mutation of ResetWrites: cpu_shard is not reset.
ResetWrites_NoCpuShard ==
    <<ResetOp("resources"), ResetOp("market_orders"), ResetOp("rcl"),
      ResetOp("energy"), ResetOp("creeps"), ResetOp("structures"),
      ResetOp("storage"), ResetOp("terminal")>>

\* Segment program, lines 286-294.
ResetWrites ==
    <<ResetOp("cpu_shard"), ResetOp("resources"), ResetOp("market_orders"),
      ResetOp("rcl"), ResetOp("energy"), ResetOp("creeps"), ResetOp("structures"),
      ResetOp("storage"), ResetOp("terminal")>>

\* Segment program, lines 296-302.
AccountWrites(a, cpuOrder, resOrder) ==
    [k \in 1..Len(cpuOrder) |->
        SetOp("cpu_shard", [shard |-> cpuOrder[k]], a.CPUShard[cpuOrder[k]])]
    \o <<SetOp("resources", [shard |-> "intershard", type |-> "money"], a.Money)>>
    \o [k \in 1..Len(resOrder) |->
        SetOp("resources", [shard |-> "intershard", type |-> resOrder[k]],
              a.Resources[resOrder[k]])]

MarketLabels(shard, order, metric) ==
    [shard |-> shard, room |-> order.RoomName, type |-> order.ResourceType,
     order_type |-> order.Type, metric |-> metric]

\* Mutation of OrderWrites: remainingAmount is set from order.Amount.
OrderWrites_AmountTwice(shard, order) ==
    <<SetOp("market_orders", MarketLabels(shard, order, "price"), order.Price),
      SetOp("market_orders", MarketLabels(shard, order, "amount"), order.Amount),
      SetOp("market_orders", MarketLabels(shard, order, "remainingAmount"),
            order.Amount),
      SetOp("market_orders", MarketLabels(shard, order, "totalAmount"),
            order.TotalAmount)>>

\* Segment program, lines 306-309: the calls for one order.
OrderWrites(shard, order) ==
    <<SetOp("market_orders", MarketLabels(shard, order, "price"), order.Price),
      SetOp("market_orders", MarketLabels(shard, order, "amount"), order.Amount),
      SetOp("market_orders", MarketLabels(shard, order, "remainingAmount"),
            order.RemainingAmount),
      SetOp("market_orders", MarketLabels(shard, order, "totalAmount"),
            order.TotalAmount)>>

\* Segment program, lines 304-311.
MarketWrites(o, shardOrder) ==
    Flatten([k \in 1..Len(shardOrder) |->
        Flatten([n \in 1..Len(o.Shards[shardOrder[k]]) |->
            OrderWrites(shardOrder[k], o.Shards[shardOrder[k]][n])])])

ProgressWrites(g, base, p) ==
    <<SetOp(g, [t \in DOMAIN base \cup {"type"} |-> IF t = "type" THEN "level" ELSE base[t]],
            p.Level),
      SetOp(g, [t \in DOMAIN base \cup {"type"} |-> IF t = "type" THEN "progress" ELSE base[t]],
            p.Progress),
      SetOp(g, [t \in DOMAIN base \cup {"type"} |-> IF t = "type" THEN "progressTotal" ELSE base[t]],
            p.ProgressTotal)>>

CpuWrites(shard, c) ==
    <<SetOp("cpu", [shard |-> shard, type |-> "used"], c.Used),
      SetOp("cpu", [shard |-> shard, type |-> "limit"], c.Limit),
      SetOp("cpu", [shard |-> shard, type |-> "bucket"], c.Bucket)>>

\* Segment program, lines 315-330.
ShardStatWrites(shard, stats) ==
    <<SetOp("tick", [shard |-> shard], stats.Tick),
      SetOp("ms", [shard |-> shard], stats.Ms),
      SetOp("global_reset_tick", [shard |-> shard], stats.LastGlobalResetTick),
      SetOp("global_reset_ms", [shard |-> shard], stats.LastGlobalResetMs)>>
    \o CpuWrites(shard, stats.CPU)
    \o ProgressWrites("gcl", [shard |-> shard], stats.GCL)
    \o ProgressWrites("gpl", [shard |-> shard], stats.GPL)

\* Compressed-history program, lines 578-591.
HistoryStatWrites(shard, stats) ==
    <<SetOp("tick", [shard |-> shard], stats.Tick),
      SetOp("ms", [shard |-> shard], stats.Ms)>>
    \o CpuWrites(shard, stats.CPU)
    \o ProgressWrites("gcl", [shard |-> shard], stats.GCL)
    \o ProgressWrites("gpl", [shard |-> shard], stats.GPL)

\* Mutation of TypedWrites: the series of a room are not told apart by type.
TypedWrites_NoTypeLabel(g, shard, name, m, order) ==
    [k \in 1..Len(order) |->
        SetOp(g, [shard |-> shard, room |-> name, type |-> ""], m[order[k]])]

\* A range over a map of resource or structure types.
TypedWrites(g, shard, name, m, order) ==
    [k \in 1..Len(order) |->
        SetOp(g, [shard |-> shard, room |-> name, type |-> order[k]], m[order[k]])]

\* Mutation of RoomBaseWrites: the two energy series carry each other's value.
RoomBaseWrites_EnergySwapped(shard, name, room, it) ==
    ProgressWrites("rcl", [shard |-> shard, room |-> name], room.RCL)
    \o <<SetOp("energy", [shard |-> shard, room |-> name, type |-> "available"],
              room.EnergyCapacityAvailable),
         SetOp("energy", [shard |-> shard, room |-> name, type |-> "capacityAvailable"],
              room.EnergyAvailable),
         SetOp("creeps", [shard |-> shard, room |-> name], room.Creeps)>>
    \o TypedWrites("structures", shard, name, room.Structures, it.structures)
    \o TypedWrites("storage", shard, name, room.Storage, it.storage)

\* Lines 333-347 (segment) and 599-613 (compressed history): one room,
\* up to and including its storage.
RoomBaseWrites(shard, name, room, it) ==
    ProgressWrites("rcl", [shard |-> shard, room |-> name], room.RCL)
    \o <<SetOp("energy", [shard |-> shard, room |-> name, type |-> "available"],
              room.EnergyAvailable),
         SetOp("energy", [shard |-> shard, room |-> name, type |-> "capacityAvailable"],
              room.EnergyCapacityAvailable),
         SetOp("creeps", [shard |-> shard, room |-> name], room.Creeps)>>
    \o TypedWrites("structures", shard, name, room.Structures, it.structures)
    \o TypedWrites("storage", shard, name, room.Storage, it.storage)

\* Segment program, lines 333-350: one room.
RoomWrites(shard, name, room, it) ==
    RoomBaseWrites(shard, name, room, it)
    \o TypedWrites("terminal", shard, name, room.Terminal, it.terminal)

\* The orders the ranges inside one room may take.
RoomIters(room) ==
    [structures : IterOrders(DOMAIN room.Structures),
     storage    : IterOrders(DOMAIN room.Storage),
     terminal   : IF "Terminal" \in DOMAIN room
                  THEN IterOrders(DOMAIN room.Terminal) ELSE {<<>>}]

\* For every room of a shard, the orders of its inner ranges.
InnerOrders(rooms) ==
    {f \in [DOMAIN rooms -> UNION {RoomIters(rooms[r]) : r \in DOMAIN rooms}] :
        \A r \in DOMAIN rooms : f[r] \in RoomIters(rooms[r])}

IsNonZero(w) == w.value /= 0

\* Mutation of ShardWrites: a shard-level value of zero is not exported.
ShardWrites_OmitsZero(shard, stats, roomOrder, inner) ==
    SelectSeq(ShardStatWrites(shard, stats), IsNonZero)
    \o Flatten([k \in 1..Len(roomOrder) |->
          RoomWrites(shard, roomOrder[k], stats.Rooms[roomOrder[k]], inner[roomOrder[k]])])

\* Segment program, lines 314-351: one iteration of the shard loop.
ShardWrites(shard, stats, roomOrder, inner) ==
    ShardStatWrites(shard, stats)
    \o Flatten([k \in 1..Len(roomOrder) |->
          RoomWrites(shard, roomOrder[k], stats.Rooms[roomOrder[k]], inner[roomOrder[k]])])

\* Mutation of HistoryRoomWrites: the resets come after the room loop.
HistoryRoomWrites_ResetLast(shard, stats, roomOrder, inner) ==
    Flatten([k \in 1..Len(roomOrder) |->
          RoomBaseWrites(shard, roomOrder[k], stats.Rooms[roomOrder[k]],
                         inner[roomOrder[k]])])
    \o <<ResetOp("rcl"), ResetOp("energy"), ResetOp("creeps"), ResetOp("structures"),
         ResetOp("storage")>>

\* Compressed-history program, lines 593-614.
HistoryRoomWrites(shard, stats, roomOrder, inner) ==
    <<ResetOp("rcl"), ResetOp("energy"), ResetOp("creeps"), ResetOp("structures"),
      ResetOp("storage")>>
    \o Flatten([k \in 1..Len(roomOrder) |->
          RoomBaseWrites(shard, roomOrder[k], stats.Rooms[roomOrder[k]],
                         inner[roomOrder[k]])])

(***************************************************************************)
(* main: configuration.                                                    *)
(***************************************************************************)
\* The shard list after the environment loop and the os.Args override.
\* The compressed-history program keeps one string `shard`: the list <<shard>>.
ConfiguredShards(v, env, args) ==
    IF v = "segment"
    THEN IF Len(args) >= 2 THEN StringsSplit(args[1])
         ELSE IF ShardVar(v) \in DOMAIN env THEN StringsSplit(env[ShardVar(v)])
         ELSE <<>>
    ELSE IF Len(args) >= 2 THEN <<Join(args[1])>>
         ELSE IF ShardVar(v) \in DOMAIN env THEN <<Join(env[ShardVar(v)])>>
         ELSE <<"">>

ConfiguredToken(env, args) ==
    IF Len(args) >= 2 THEN Join(args[2])
    ELSE IF "SCREEPS_TOKEN" \in DOMAIN env THEN Join(env["SCREEPS_TOKEN"])
    ELSE ""

\* The startup check: line 374 (segment), line 634 (compressed history).
InvalidConfig(v, sh, tok) ==
    IF v = "segment" THEN Len(sh) < 1 \/ tok = "" ELSE sh[1] = "" \/ tok = ""

ZeroAuthMe == DecodeAuthMe(EmptyMap)
ZeroOrders == DecodeMarketOrders(EmptyMap)
NoFetch ==
    [authMe |-> ZeroAuthMe, orders |-> ZeroOrders, statsMap |-> EmptyMap,
     docs |-> EmptyMap]

NoOps(v) == [g \in Gauges(v) |-> "none"]

Init ==
    /\ variant \in {"segment", "history"}
    /\ \E st \in Starts(variant) : environ = st.environ /\ osArgs = st.osArgs
    /\ shards = <<>>
    /\ token = ""
    /\ pc = "main"
    /\ i = 0
    /\ active = 0
    /\ authMe = ZeroAuthMe
    /\ orders = ZeroOrders
    /\ statsMap = EmptyMap
    /\ docs = EmptyMap
    /\ store = EmptyMap
    /\ store0 = EmptyMap
    /\ requests = <<>>
    /\ writes = <<>>
    /\ firstOp = EmptyMap
    /\ observed = FALSE
    /\ lastErr = "nil"
    /\ lastGood = NoFetch
    /\ hung = FALSE
    /\ balance = 0
    /\ scraped = <<>>

\* main up to the start of the goroutine: parse, check, setup().
Main ==
    /\ pc = "main"
    /\ scraped' = <<>>
    /\ shards' = ConfiguredShards(variant, environ, osArgs)
    /\ token' = ConfiguredToken(environ, osArgs)
    /\ IF InvalidConfig(variant, shards', token')
       THEN /\ pc' = "fatal"
            /\ UNCHANGED <<store, store0, firstOp>>
       ELSE /\ pc' = "loop"
            /\ store' = [g \in Gauges(variant) |-> EmptyMap]
            /\ store0' = store'
            /\ firstOp' = NoOps(variant)
    /\ UNCHANGED <<variant, environ, osArgs, i, active, authMe, orders, statsMap, docs,
                   requests, writes, observed, lastErr, lastGood, hung, balance>>

\* Mutation of LoopReady: a ticker starts cycles whatever the goroutine does.
LoopReady_Ticker == pc \notin {"main", "fatal", "panic"}

\* The goroutine is at the top of its loop (line 380 / 640).
LoopReady == pc = "loop"

\* Mutation of Call: updateStats resets the room gauges first, before it
\* fetches anything.
Call_ResetsFirst ==
    /\ LoopReady
    /\ scraped' = <<>>
    /\ pc' = IF variant = "segment" THEN "authMe" ELSE "fetch"
    /\ active' = active + 1
    /\ store0' = store
    /\ store' = [g \in DOMAIN store |->
                    IF g \in {"rcl", "energy", "creeps", "structures", "storage"}
                    THEN EmptyMap ELSE store[g]]
    /\ requests' = <<>>
    /\ writes' = <<>>
    /\ firstOp' = NoOps(variant)
    /\ observed' = FALSE
    /\ lastErr' = "nil"
    /\ UNCHANGED <<variant, environ, osArgs, shards, token, i, authMe, orders,
                   statsMap, docs, lastGood, hung, balance>>

\* The loop calls updateStats.
Call ==
    /\ LoopReady
    /\ scraped' = <<>>
    /\ pc' = IF variant = "segment" THEN "authMe" ELSE "fetch"
    /\ active' = active + 1
    /\ store0' = store
    /\ requests' = <<>>
    /\ writes' = <<>>
    /\ firstOp' = NoOps(variant)
    /\ observed' = FALSE
    /\ lastErr' = "nil"
    /\ UNCHANGED <<variant, environ, osArgs, shards, token, i, authMe, orders,
                   statsMap, docs, store, lastGood, hung, balance>>

\* 1 when rs are the requests of a whole cycle and each was answered well,
\* 0 otherwise.
WellAnswered(v, sh, rs) ==
    IF /\ Len(rs) = (IF v = "segment" THEN 2 + Len(sh) ELSE 1)
       /\ \A k \in DOMAIN rs : rs[k].outcome = "ok"
    THEN 1 ELSE 0

\* Mutation of ReturnErr: the duration is observed by a deferred call, on
\* every return.
ReturnErr_Observes(err) ==
    /\ pc' = "sleep"
    /\ active' = active - 1
    /\ lastErr' = err
    /\ i' = 0
    /\ authMe' = ZeroAuthMe
    /\ orders' = ZeroOrders
    /\ statsMap' = EmptyMap
    /\ docs' = EmptyMap
    /\ observed' = TRUE
    /\ balance' = balance + 1 - WellAnswered(variant, shards, requests')
    /\ UNCHANGED <<variant, environ, osArgs, shards, token, store, store0, writes,
                   firstOp, lastGood>>

\* updateStats returns after printing err; the loop goes to time.Sleep.
ReturnErr(err) ==
    /\ pc' = "sleep"
    /\ active' = active - 1
    /\ lastErr' = err
    /\ i' = 0
    /\ authMe' = ZeroAuthMe
    /\ orders' = ZeroOrders
    /\ statsMap' = EmptyMap
    /\ docs' = EmptyMap
    /\ balance' = balance - WellAnswered(variant, shards, requests')
    /\ UNCHANGED <<variant, environ, osArgs, shards, token, store, store0, writes,
                   firstOp, observed, lastGood>>

\* time.Sleep(time.Minute) elapses (line 382 / 642).  The records of the
\* finished cycle are dropped.
Sleep ==
    /\ pc = "sleep"
    /\ scraped' = <<>>
    /\ pc' = "loop"
    /\ store0' = store
    /\ requests' = <<>>
    /\ writes' = <<>>
    /\ firstOp' = NoOps(variant)
    /\ observed' = FALSE
    /\ lastErr' = "nil"
    /\ UNCHANGED <<variant, environ, osArgs, shards, token, i, active, authMe,
                   orders, statsMap, docs, store, lastGood, hung, balance>>

\* What a response is, whatever the program makes of it.
AccountOutcome(resp) ==
    IF resp.kind = "transportError" THEN "transport error"
    ELSE IF resp.kind = "malformed" THEN "malformed body"
    ELSE "ok"

SegmentOutcome(resp) ==
    IF resp.kind = "transportError" THEN "transport error"
    ELSE IF resp.kind = "malformed" THEN "malformed envelope"
    ELSE IF resp.data.kind = "mismatch" THEN "schema mismatch"
    ELSE IF resp.data.kind = "json" THEN "ok"
    ELSE "invalid json"

HistoryOutcome(resp) ==
    IF resp.kind = "transportError" THEN "transport error"
    ELSE IF resp.kind = "malformed" THEN "malformed envelope"
    ELSE IF resp.data.b64.kind = "invalid" THEN "invalid base64"
    ELSE IF resp.data.b64.bytes.kind /= "gzip" THEN "corrupt gzip"
    ELSE IF resp.data.b64.bytes.text.kind = "mismatch" THEN "schema mismatch"
    ELSE IF resp.data.b64.bytes.text.kind = "invalid" THEN "invalid json"
    ELSE IF Len(ListField(ObjField(resp.data.b64.bytes.text.doc, "stats"), "history")) = 0
    THEN "empty history"
    ELSE "ok"

\* The document a memory-segment response carries (none: the empty one).
SegmentDoc(resp) ==
    IF resp.kind = "envelope" THEN ObjField(resp.data, "doc") ELSE EmptyMap

\* One request of a cycle and what came back.
Request(endpoint, shard, outcome) ==
    [endpoint |-> endpoint, shard |-> shard, outcome |-> outcome]

\* Segment program, lines 266-270.
FetchAuthMe ==
    /\ pc = "authMe"
    /\ ~hung
    /\ UNCHANGED hung
    /\ scraped' = <<>>
    /\ \E resp \in AuthMeResponses :
         LET r == getStatsFromAuthMe(resp)
         IN  /\ requests' = Append(requests, Request("auth/me", "", AccountOutcome(resp)))
             /\ IF r.err /= "nil"
                THEN ReturnErr(r.err)
                ELSE /\ authMe' = r.val
                     /\ pc' = "orders"
                     /\ UNCHANGED <<variant, environ, osArgs, shards, token, i,
                                    active, orders, statsMap, docs, store, store0, writes,
                                    firstOp, observed, lastErr, lastGood, hung, balance>>

\* Segment program, lines 271-276.
FetchOrders ==
    /\ pc = "orders"
    /\ ~hung
    /\ UNCHANGED hung
    /\ scraped' = <<>>
    /\ \E resp \in MarketResponses :
         LET r == getMarketOrders(resp)
         IN  /\ requests' = Append(requests, Request("game/market/my-orders", "", AccountOutcome(resp)))
             /\ IF r.err /= "nil"
                THEN ReturnErr(r.err)
                ELSE /\ orders' = r.val
                     /\ pc' = "shard"
                     /\ i' = 1
                     /\ statsMap' = EmptyMap
                     /\ docs' = EmptyMap
                     /\ UNCHANGED <<variant, environ, osArgs, shards, token, active,
                                    authMe, store, store0, writes, firstOp, observed,
                                    lastErr, lastGood, hung, balance>>

\* Mutation of ShardFetchFailed: the loop goes on whatever the fetch returned.
ShardFetchFailed_Never(r) == FALSE

\* Mutation of ShardFetchFailed: only a transport error stops the loop.
ShardFetchFailed_TransportOnly(r) == r.err = "transport"

\* Whether the shard loop of lines 277-284 stops at this result.
ShardFetchFailed(r) == r.err /= "nil"

\* Segment program, lines 277-284: one iteration of the fetch loop.
FetchShard ==
    /\ pc = "shard"
    /\ ~hung
    /\ UNCHANGED hung
    /\ scraped' = <<>>
    /\ \E resp \in SegmentResponses :
         LET r == getStatsFromMemorySegment(resp)
         IN  /\ requests' = Append(requests, Request("user/memory-segment", shards[i],
                                                SegmentOutcome(resp)))
             /\ IF ShardFetchFailed(r)
                THEN ReturnErr(r.err)
                ELSE /\ statsMap' = [s \in DOMAIN statsMap \cup {shards[i]} |->
                                        IF s = shards[i] THEN r.val ELSE statsMap[s]]
                     /\ docs' = [s \in DOMAIN docs \cup {shards[i]} |->
                                    IF s = shards[i] THEN SegmentDoc(resp) ELSE docs[s]]
                     /\ i' = IF i < Len(shards) THEN i + 1 ELSE 0
                     /\ pc' = IF i < Len(shards) THEN "shard" ELSE "reset"
                     /\ UNCHANGED <<variant, environ, osArgs, shards, token, active,
                                    authMe, orders, store, store0, writes, firstOp,
                                    observed, lastErr, lastGood, hung, balance>>

\* One step of the write phase: the calls ws are made on the store.
Write(ws) ==
    /\ writes' = ws
    /\ store' = ApplyAll(store, ws)
    /\ firstOp' = FirstOps(firstOp, ws)

\* Segment program, lines 286-294.
ResetGauges ==
    /\ pc = "reset"
    /\ scraped' = <<>>
    /\ Write(ResetWrites)
    /\ pc' = "account"
    /\ UNCHANGED <<variant, environ, osArgs, shards, token, i, active, authMe,
                   orders, statsMap, docs, store0, requests, observed, lastErr, lastGood, hung, balance>>

\* Segment program, lines 296-302.
WriteAccount ==
    /\ pc = "account"
    /\ scraped' = <<>>
    /\ \E cpuOrder \in IterOrders(DOMAIN authMe.CPUShard),
          resOrder \in IterOrders(DOMAIN authMe.Resources) :
         Write(AccountWrites(authMe, cpuOrder, resOrder))
    /\ pc' = "market"
    /\ UNCHANGED <<variant, environ, osArgs, shards, token, i, active, authMe,
                   orders, statsMap, docs, store0, requests, observed, lastErr, lastGood, hung, balance>>

\* Segment program, lines 304-311.
WriteMarket ==
    /\ pc = "market"
    /\ scraped' = <<>>
    /\ \E shardOrder \in IterOrders(DOMAIN orders.Shards) :
         Write(MarketWrites(orders, shardOrder))
    /\ pc' = "stats"
    /\ i' = 1
    /\ UNCHANGED <<variant, environ, osArgs, shards, token, active, authMe, orders,
                   statsMap, docs, store0, requests, observed, lastErr, lastGood, hung, balance>>

\* Segment program, lines 313-352: one iteration of the shard loop.
WriteShard ==
    /\ pc = "stats"
    /\ variant = "segment"
    /\ scraped' = <<>>
    /\ LET stats == statsMap[shards[i]]
       IN  \E roomOrder \in IterOrders(DOMAIN stats.Rooms),
              inner \in InnerOrders(stats.Rooms) :
             Write(ShardWrites(shards[i], stats, roomOrder, inner))
    /\ i' = IF i < Len(shards) THEN i + 1 ELSE 0
    /\ pc' = IF i < Len(shards) THEN "stats" ELSE "observe"
    /\ UNCHANGED <<variant, environ, osArgs, shards, token, active, authMe, orders,
                   statsMap, docs, store0, requests, observed, lastErr, lastGood, hung, balance>>

\* Mutation of LastSnapshot: the oldest snapshot is taken.
LastSnapshot_First(memory) == memory.History[1]

\* Line 576: memory.Stats.History[len(memory.Stats.History)-1]
LastSnapshot(memory) == memory.History[Len(memory.History)]

\* The request of the compressed-history program and what came back;
\* prefixed: the data string of the response starts with "gz:".
MemoryRequest(shard, resp) ==
    [endpoint |-> "user/memory", shard |-> shard, outcome |-> HistoryOutcome(resp),
     prefixed |-> resp.kind = "envelope" /\ resp.data.gz]

\* Whether line 576 indexes outside the history list.
IndexOutOfRange(memory) == Len(memory.History) = 0

\* Compressed-history program, lines 539-576: fetch, decode, take the last
\* snapshot.  An index out of range is a run-time panic of the goroutine,
\* which nothing recovers: the process dies.
FetchHistory ==
    /\ pc = "fetch"
    /\ ~hung
    /\ UNCHANGED hung
    /\ scraped' = <<>>
    /\ \E resp \in HistoryResponses :
         LET r == FetchMemory(resp)
         IN  /\ requests' = Append(requests, MemoryRequest(shards[1], resp))
             /\ IF r.err /= "nil"
                THEN ReturnErr(r.err)
                ELSE IF IndexOutOfRange(r.val)
                THEN /\ pc' = "panic"
                     /\ UNCHANGED <<variant, environ, osArgs, shards, token, i,
                                    active, authMe, orders, statsMap, docs, store, store0,
                                    writes, firstOp, observed, lastErr, lastGood, hung, balance>>
                ELSE /\ statsMap' = [s \in {shards[1]} |-> LastSnapshot(r.val)]
                     /\ docs' = [s \in {shards[1]} |-> resp.data.b64.bytes.text.doc]
                     /\ pc' = "stats"
                     /\ i' = 1
                     /\ UNCHANGED <<variant, environ, osArgs, shards, token, active,
                                    authMe, orders, store, store0, writes, firstOp,
                                    observed, lastErr, lastGood, hung, balance>>

\* Compressed-history program, lines 578-591.
WriteHistoryStats ==
    /\ pc = "stats"
    /\ variant = "history"
    /\ scraped' = <<>>
    /\ Write(HistoryStatWrites(shards[1], statsMap[shards[1]]))
    /\ pc' = "rooms"
    /\ UNCHANGED <<variant, environ, osArgs, shards, token, i, active, authMe,
                   orders, statsMap, docs, store0, requests, observed, lastErr, lastGood, hung, balance>>

\* Compressed-history program, lines 593-614.
WriteHistoryRooms ==
    /\ pc = "rooms"
    /\ scraped' = <<>>
    /\ LET stats == statsMap[shards[1]]
       IN  \E roomOrder \in IterOrders(DOMAIN stats.Rooms),
              inner \in InnerOrders(stats.Rooms) :
             Write(HistoryRoomWrites(shards[1], stats, roomOrder, inner))
    /\ pc' = "observe"
    /\ i' = 0
    /\ UNCHANGED <<variant, environ, osArgs, shards, token, active, authMe, orders,
                   statsMap, docs, store0, requests, observed, lastErr, lastGood, hung, balance>>

\* Line 353 / 615: the duration is observed and updateStats returns.
Observe ==
    /\ pc = "observe"
    /\ observed' = TRUE
    /\ pc' = "sleep"
    /\ active' = active - 1
    /\ lastErr' = "nil"
    /\ lastGood' = [authMe |-> authMe, orders |-> orders, statsMap |-> statsMap,
                    docs |-> docs]
    /\ authMe' = ZeroAuthMe
    /\ orders' = ZeroOrders
    /\ statsMap' = EmptyMap
    /\ docs' = EmptyMap
    /\ writes' = <<>>
    /\ balance' = balance + 1 - WellAnswered(variant, shards, requests)
    /\ scraped' = <<>>
    /\ UNCHANGED <<variant, environ, osArgs, shards, token, i, store, store0,
                   requests, firstOp, hung>>

\* Mutation of ClientHasTimeout: the client gives up on a request.
ClientHasTimeout_Set == TRUE

\* client = &http.Client{}: the zero Timeout, and the requests carry no
\* context, so client.Do waits for its answer as long as that takes.
ClientHasTimeout == FALSE

\* The positions at which a request is in flight.
FetchPositions == {"authMe", "orders", "shard", "fetch"}

\* The request in flight is never answered.  Without a timeout client.Do
\* never returns and the goroutine stays where it is.
Hang ==
    /\ pc \in FetchPositions
    /\ ~hung
    /\ hung' = TRUE
    /\ scraped' = <<>>
    /\ IF ClientHasTimeout
       THEN /\ requests' = Append(requests, Request("timed out", "", "transport error"))
            /\ ReturnErr("timeout")
       ELSE UNCHANGED <<variant, environ, osArgs, shards, token, pc, i, active,
                        authMe, orders, statsMap, docs, store, store0, requests,
                        writes, firstOp, observed, lastErr, lastGood, balance>>

\* The handler of /metrics (promhttp.Handler, line 386 / 646) serves one
\* scrape: it reads the registered gauges as they are.
Scrape ==
    /\ pc \notin {"main", "fatal", "panic"}
    /\ scraped' = <<store>>
    /\ UNCHANGED <<variant, environ, osArgs, shards, token, pc, i, active, authMe,
                   orders, statsMap, docs, store, store0, requests, writes, firstOp,
                   observed, lastErr, lastGood, hung, balance>>

Next ==
    \/ Main
    \/ Call
    \/ Sleep
    \/ FetchAuthMe
    \/ FetchOrders
    \/ FetchShard
    \/ ResetGauges
    \/ WriteAccount
    \/ WriteMarket
    \/ WriteShard
    \/ FetchHistory
    \/ WriteHistoryStats
    \/ WriteHistoryRooms
    \/ Observe
    \/ Hang

\* The collection goroutine alone.
Spec == Init /\ [][Next]_vars

ScrapeNext ==
    \/ Next
    \/ Scrape

\* The collection goroutine and the HTTP listener serving scrapes.
ScrapeSpec == Init /\ [][ScrapeNext]_vars

(***************************************************************************)
(* The write phase of one cycle as a whole.                                *)
(***************************************************************************)
\* One of the orders a range over a map with key set S may take.
SomeOrder(S) == CHOOSE f \in IterOrders(S) : TRUE

\* One choice of orders for the ranges inside every room.
SomeInner(rooms) == CHOOSE f \in InnerOrders(rooms) : TRUE

\* The steps of the write phase of a cycle that fetched f, in the order of
\* the code (lines 286-352; 578-614), each with its store calls, the ranges
\* taking one of their orders.
CycleWrites(v, sh, f) ==
    IF v = "segment"
    THEN <<ResetWrites,
           AccountWrites(f.authMe, SomeOrder(DOMAIN f.authMe.CPUShard),
                         SomeOrder(DOMAIN f.authMe.Resources)),
           MarketWrites(f.orders, SomeOrder(DOMAIN f.orders.Shards))>>
         \o [n \in 1..Len(sh) |->
                ShardWrites(sh[n], f.statsMap[sh[n]],
                            SomeOrder(DOMAIN f.statsMap[sh[n]].Rooms),
                            SomeInner(f.statsMap[sh[n]].Rooms))]
    ELSE <<HistoryStatWrites(sh[1], f.statsMap[sh[1]]),
           HistoryRoomWrites(sh[1], f.statsMap[sh[1]],
                             SomeOrder(DOMAIN f.statsMap[sh[1]].Rooms),
                             SomeInner(f.statsMap[sh[1]].Rooms))>>

RECURSIVE ApplySteps(_, _)
\* The store after the steps, one after the other; a store without gauges
\* takes no call.
ApplySteps(st, steps) ==
    IF steps = <<>> THEN st
    ELSE LET next == ApplyAll(st, Head(steps))
         IN  IF DOMAIN next = {} THEN next ELSE ApplySteps(next, Tail(steps))

\* The store a cycle that fetched f leaves when it starts from the store st.
Project(st, f) == ApplySteps(st, CycleWrites(variant, shards, f))

(***************************************************************************)
(* The decoding of a level field, on its own.  The documents of the        *)
(* collection loop above carry integer literals only, which every Go       *)
(* number type decodes to their value; here the field `level` of gcl, gpl  *)
(* or rcl carries a number literal in one of its two forms, "n" or "n.0".  *)
(***************************************************************************)
LevelLiterals == [form : {"int", "float"}, digits : 0..MaxLevel]

\* encoding/json into a float64 field (Progress.Level, line 49): both forms
\* decode to the number they stand for.
ParseFloat64(lit) == [err |-> "nil", val |-> lit.digits]

\* encoding/json into an int64 field (Progress.Level, line 426): the
\* literal must parse as an integer; "n.0" is an UnmarshalTypeError.
ParseInt64(lit) ==
    IF lit.form = "int"
    THEN [err |-> "nil", val |-> lit.digits]
    ELSE [err |-> "json: cannot unmarshal number into Go struct field of type int64",
          val |-> 0]

LevelGauges == {"gcl", "gpl", "rcl"}

\* The snapshot that carries nothing but the level literal lit of g.
LevelDoc(g, lit) ==
    IF g = "rcl"
    THEN [rooms |-> [W1N1 |-> [rcl |-> [level |-> lit]]]]
    ELSE [k \in {g} |-> [level |-> lit]]

\* The gauge and the literal of the snapshot being decoded.
LevelGauge == IF "rooms" \in DOMAIN docs["shard0"] THEN "rcl"
              ELSE CHOOSE k \in DOMAIN docs["shard0"] : TRUE
LevelLiteral ==
    IF LevelGauge = "rcl" THEN docs["shard0"]["rooms"]["W1N1"]["rcl"]["level"]
    ELSE docs["shard0"][LevelGauge]["level"]

\* The labels of the series of LevelGauge, without "type".
LevelBase ==
    IF LevelGauge = "rcl" THEN [shard |-> "shard0", room |-> "W1N1"]
    ELSE [shard |-> "shard0"]

LevelInit ==
    /\ variant \in {"segment", "history"}
    /\ environ = Env(variant, << <<"shard0">> >>, << <<"tok">> >>)
    /\ osArgs = <<>>
    /\ shards = <<"shard0">>
    /\ token = "tok"
    /\ pc = "decode"
    /\ i = 0
    /\ active = 1
    /\ authMe = ZeroAuthMe
    /\ orders = ZeroOrders
    /\ statsMap = EmptyMap
    /\ \E g \in LevelGauges, lit \in LevelLiterals : docs = [s \in {"shard0"} |-> LevelDoc(g, lit)]
    /\ store = [g \in Gauges(variant) |-> EmptyMap]
    /\ store0 = store
    /\ requests = <<>>
    /\ writes = <<>>
    /\ firstOp = NoOps(variant)
    /\ observed = FALSE
    /\ lastErr = "nil"
    /\ lastGood = NoFetch
    /\ hung = FALSE
    /\ balance = 0
    /\ scraped = <<>>

\* The decoder reaches the level field: float64 in the segment program,
\* int64 in the compressed-history program.
DecodeLevel ==
    /\ pc = "decode"
    /\ LET r == IF variant = "segment" THEN ParseFloat64(LevelLiteral)
                ELSE ParseInt64(LevelLiteral)
       IN  IF r.err /= "nil"
           THEN /\ lastErr' = r.err
                /\ pc' = "failed"
                /\ UNCHANGED statsMap
           ELSE /\ statsMap' = [s \in {"shard0"} |->
                                   [Level |-> r.val, Progress |-> 0, ProgressTotal |-> 0]]
                /\ pc' = "export"
                /\ UNCHANGED lastErr
    /\ UNCHANGED <<variant, environ, osArgs, shards, token, i, active, authMe, orders,
                   docs, store, store0, requests, writes, firstOp, observed, lastGood,
                   hung, balance, scraped>>

\* The three Set calls of the decoded Progress (lines 324-330 and 333-335;
\* 585-591 and 599-601).
ExportLevel ==
    /\ pc = "export"
    /\ Write(ProgressWrites(LevelGauge, LevelBase, statsMap["shard0"]))
    /\ pc' = "done"
    /\ UNCHANGED <<variant, environ, osArgs, shards, token, i, active, authMe, orders,
                   statsMap, docs, store0, requests, observed, lastErr, lastGood,
                   hung, balance, scraped>>

LevelNext ==
    \/ DecodeLevel
    \/ ExportLevel

\* Every level literal, decoded and exported by either program.
LevelSpec == LevelInit /\ [][LevelNext]_vars

(***************************************************************************)
(* Vocabulary of the properties.                                           *)
(***************************************************************************)
\* updateStats has returned and the loop sleeps.
Returned == pc = "sleep"

\* The cycle that just returned had every fetch answered well.
CycleSucceeded == Returned /\ \A k \in DOMAIN requests : requests[k].outcome = "ok"

\* Some fetch or decode of the cycle failed.
SomeFetchFailed == \E k \in DOMAIN requests : requests[k].outcome /= "ok"

\* Every fetch of the cycle has been made.
AllFetched ==
    Len(requests) = (IF variant = "segment" THEN 2 + Len(shards) ELSE 1)

\* The shard names of the state a cycle projected.
ProjectedShards(f) ==
    DOMAIN f.authMe.CPUShard \cup DOMAIN f.orders.Shards \cup DOMAIN f.statsMap

RoomGauges == {"rcl", "energy", "creeps", "structures", "storage", "terminal"}

\* The shard labels some series of the gauges gs carries in the store st.
ShardLabels(st, gs) ==
    {l.shard : l \in UNION {DOMAIN st[g] : g \in gs \cap DOMAIN st}}

\* Value of a numeric field of a fetched document, 0 when it is absent.
FieldOrZero(doc, k) == IF k \in DOMAIN doc THEN doc[k] ELSE 0
\* An object field of a fetched document, the empty object when it is absent.
FieldOrEmpty(doc, k) == IF k \in DOMAIN doc THEN doc[k] ELSE EmptyMap

\* The store holds the series l of gauge g with value v.
Holds(g, l, v) == l \in DOMAIN store[g] /\ store[g][l] = v

\* The store with every gauge registered and no series.
EmptyStore == [g \in Gauges(variant) |-> EmptyMap]

\* The loop is between two cycles.
Idle == pc \in {"loop", "sleep"}

\* The cycle in progress is in its write phase.
Writing == pc \in {"account", "market", "stats", "rooms", "observe"}

\* What the cycle in progress has fetched.
Fetched == [authMe |-> authMe, orders |-> orders, statsMap |-> statsMap, docs |-> docs]

(***************************************************************************)
(* C1.  Abort before any write: a cycle in which a fetch or decode failed  *)
(* made no Reset and no Set, so the store is what it was when the cycle    *)
(* started; and a cycle makes its first store call only after every fetch  *)
(* of the cycle has been answered well.                                    *)
(***************************************************************************)
C1_AbortBeforeAnyWrite ==
    /\ SomeFetchFailed =>
          /\ store = store0
          /\ \A g \in DOMAIN firstOp : firstOp[g] = "none"
    /\ (\E g \in DOMAIN firstOp : firstOp[g] /= "none") =>
          AllFetched /\ ~SomeFetchFailed

\* The second shard's decode failed after an earlier cycle filled the store.
C1_Witness ==
    /\ Returned
    /\ Len(requests) = 4
    /\ requests[4].outcome = "schema mismatch"
    /\ store["rcl"] /= EmptyMap

(***************************************************************************)
(* C2.  Stale room eviction: after a successful cycle every series of a    *)
(* room-scoped gauge belongs to a (shard, room) of the states fetched in   *)
(* that cycle.                                                             *)
(***************************************************************************)
C2_StaleRoomEviction ==
    CycleSucceeded =>
        \A g \in RoomGauges \cap DOMAIN store :
            \A l \in DOMAIN store[g] :
                /\ l.shard \in DOMAIN lastGood.statsMap
                /\ l.room \in DOMAIN lastGood.statsMap[l.shard].Rooms

\* A room exported before the cycle belongs to a shard that now has no room.
C2_Witness ==
    /\ CycleSucceeded
    /\ \E l \in DOMAIN store0["structures"] :
          /\ l.room = "W1N1"
          /\ DOMAIN lastGood.statsMap[l.shard].Rooms = {}

(***************************************************************************)
(* C3.  Shard removal leaves nothing behind: after a successful cycle no   *)
(* series of cpu_shard, market_orders, tick, ms, global_reset_tick,        *)
(* global_reset_ms, cpu, gcl, gpl or of a room-scoped gauge carries a      *)
(* shard that is not in the state that cycle projected, whatever the       *)
(* store held before the cycle.                                            *)
(***************************************************************************)
ShardGauges ==
    {"cpu_shard", "market_orders", "tick", "ms", "global_reset_tick",
     "global_reset_ms", "cpu", "gcl", "gpl"} \cup RoomGauges

C3_ShardRemoval ==
    CycleSucceeded =>
        \A s \in ShardLabels(store0, ShardGauges) \cup ShardLabels(store, ShardGauges) :
            s \notin ProjectedShards(lastGood) => s \notin ShardLabels(store, ShardGauges)

\* shard1 had series before the cycle and is not in the state it projected.
C3_Witness ==
    /\ CycleSucceeded
    /\ "shard1" \in ShardLabels(store0, ShardGauges)
    /\ "shard1" \notin ProjectedShards(lastGood)

(***************************************************************************)
(* C4.  Reset-then-populate.  As claimed: every gauge among cpu_shard,     *)
(* resources, market_orders, tick, ms, global_reset_tick, global_reset_ms  *)
(* and the room-scoped gauges is Reset in a cycle before its first Set of  *)
(* that cycle.                                                             *)
(***************************************************************************)
C4Gauges ==
    {"cpu_shard", "resources", "market_orders", "tick", "ms", "global_reset_tick",
     "global_reset_ms"} \cup RoomGauges

NeverReset == {"tick", "ms", "global_reset_tick", "global_reset_ms", "cpu", "gcl", "gpl"}

C5_NeverFatal == pc /= "panic"

(***************************************************************************)
(* C6.  No overlapping cycles: at most one updateStats call is in          *)
(* progress, and one is in progress exactly while the goroutine is inside  *)
(* updateStats, not while it sleeps or is at the top of its loop.          *)
(***************************************************************************)
InsideUpdateStats ==
    pc \in {"authMe", "orders", "shard", "reset", "account", "market", "stats",
            "fetch", "rooms", "observe", "panic"}

C6_NoOverlap ==
    /\ active \in {0, 1}
    /\ active = 1 <=> InsideUpdateStats

\* A second or later cycle is in its write phase.
C6_Witness ==
    /\ active = 1
    /\ pc = "market"
    /\ lastGood /= NoFetch

(***************************************************************************)
(* C7.  Startup configuration check: main ends the process at the check    *)
(* exactly when the shard configuration or the token is missing or empty.  *)
(***************************************************************************)
\* The text main takes the shard configuration from (<<>>: unset or empty).
ShardConfigText ==
    IF Len(osArgs) >= 2 THEN osArgs[1]
    ELSE IF ShardVar(variant) \in DOMAIN environ THEN environ[ShardVar(variant)]
    ELSE <<>>

TokenConfigText ==
    IF Len(osArgs) >= 2 THEN osArgs[2]
    ELSE IF "SCREEPS_TOKEN" \in DOMAIN environ THEN environ["SCREEPS_TOKEN"]
    ELSE <<>>

C7_StartupCheck ==
    pc /= "main" =>
        ((ShardConfigText = <<>> \/ TokenConfigText = <<>>) <=> pc = "fatal")

(***************************************************************************)
(* C8.  As claimed: when the decode of one shard's response fails, the     *)
(* remaining configured shards are still fetched in that cycle.            *)
(***************************************************************************)
DecodeFailures ==
    {"malformed envelope", "invalid base64", "corrupt gzip", "schema mismatch",
     "invalid json"}

ShardDecodeFailedAt(k) ==
    /\ requests[k].endpoint = "user/memory-segment"
    /\ requests[k].outcome \in DecodeFailures

C8_SiblingsStillFetched ==
    (Returned /\ \E k \in DOMAIN requests : ShardDecodeFailedAt(k)) =>
        \A j \in 1..Len(shards) :
            \E k \in DOMAIN requests :
                /\ requests[k].endpoint = "user/memory-segment"
                /\ requests[k].shard = shards[j]

(***************************************************************************)
(* C8 as amended: when the decode of one shard's response fails, the       *)
(* cycle ends there: the account summary, the market orders and the        *)
(* shards before it were fetched and answered well, and no shard after it  *)
(* is fetched in that cycle.                                               *)
(***************************************************************************)
C8_AbortsAtFailedShard ==
    \A k \in DOMAIN requests :
        ShardDecodeFailedAt(k) =>
            /\ Returned
            /\ k = Len(requests)
            /\ \A j \in 1..(k - 1) : requests[j].outcome = "ok"
            /\ requests[1].endpoint = "auth/me"
            /\ requests[2].endpoint = "game/market/my-orders"
            /\ \A j \in 3..k : requests[j].shard = shards[j - 2]

\* The first of two shards failed to decode.
C8_Witness ==
    /\ Returned
    /\ Len(shards) = 2
    /\ Len(requests) = 3
    /\ requests[3].outcome = "invalid json"

(***************************************************************************)
(* C9.  Market order projection: the market step of a cycle makes, for     *)
(* every order of every shard of the response, one Set on market_orders    *)
(* per metric price, amount, remainingAmount, totalAmount, labelled with   *)
(* the shard and the order's roomName, resourceType and type and carrying  *)
(* that field's value, and makes no other call; no market_orders series    *)
(* has another metric label.                                               *)
(***************************************************************************)
Metrics == {"price", "amount", "remainingAmount", "totalAmount"}

MetricValue(o, m) ==
    CASE m = "price" -> o.Price
      [] m = "amount" -> o.Amount
      [] m = "remainingAmount" -> o.RemainingAmount
      [] m = "totalAmount" -> o.TotalAmount

\* The (shard, position, metric) triples of the fetched orders.
OrderSlots ==
    UNION {{<<s, n, m>> : n \in 1..Len(orders.Shards[s]), m \in Metrics} :
           s \in DOMAIN orders.Shards}

ExpectedMarketSet(t) ==
    LET o == orders.Shards[t[1]][t[2]]
    IN  [op |-> "set", gauge |-> "market_orders",
         labels |-> [shard |-> t[1], room |-> o.RoomName, type |-> o.ResourceType,
                     order_type |-> o.Type, metric |-> t[3]],
         value |-> MetricValue(o, t[3])]

\* The market step (lines 304-311) has just run.
AfterMarket == variant = "segment" /\ pc = "stats" /\ i = 1

C9_MarketProjection ==
    /\ AfterMarket =>
          /\ Len(writes) = Cardinality(OrderSlots)
          /\ \A t \in OrderSlots :
                Cardinality({p \in DOMAIN writes : writes[p] = ExpectedMarketSet(t)})
                = Cardinality({u \in OrderSlots : ExpectedMarketSet(u) = ExpectedMarketSet(t)})
    /\ "market_orders" \in DOMAIN store =>
          \A l \in DOMAIN store["market_orders"] : l.metric \in Metrics

\* A response with two orders in one shard: eight calls.
C9_Witness ==
    /\ AfterMarket
    /\ \E s \in DOMAIN orders.Shards : Len(orders.Shards[s]) = 2
    /\ Len(writes) = 8

(***************************************************************************)
(* C10.  Every configured shard always receives a value: after a           *)
(* successful cycle the store holds, for every configured shard, tick and  *)
(* ms (and global_reset_tick and global_reset_ms, gauges of the segment    *)
(* program), cpu used/limit/bucket and gcl and gpl level/progress/         *)
(* progressTotal, each with the value of the fetched snapshot's field and  *)
(* with 0 when the snapshot does not carry the field.                      *)
(***************************************************************************)
\* The snapshot document a successful cycle exported for shard s.
Snapshot(s) ==
    IF variant = "segment" THEN lastGood.docs[s]
    ELSE LET h == lastGood.docs[s]["stats"]["history"] IN h[Len(h)]

HoldsProgress(g, s, doc) ==
    /\ Holds(g, [shard |-> s, type |-> "level"], FieldOrZero(doc, "level"))
    /\ Holds(g, [shard |-> s, type |-> "progress"], FieldOrZero(doc, "progress"))
    /\ Holds(g, [shard |-> s, type |-> "progressTotal"], FieldOrZero(doc, "progressTotal"))

C10_EveryShardHasValues ==
    CycleSucceeded =>
        \A n \in 1..Len(shards) :
            LET s == shards[n]
                d == Snapshot(s)
                c == FieldOrEmpty(d, "cpu")
            IN  /\ Holds("tick", [shard |-> s], FieldOrZero(d, "tick"))
                /\ Holds("ms", [shard |-> s], FieldOrZero(d, "ms"))
                /\ variant = "segment" =>
                      /\ Holds("global_reset_tick", [shard |-> s],
                               FieldOrZero(d, "lastGlobalResetTick"))
                      /\ Holds("global_reset_ms", [shard |-> s],
                               FieldOrZero(d, "lastGlobalResetMs"))
                /\ Holds("cpu", [shard |-> s, type |-> "used"], FieldOrZero(c, "used"))
                /\ Holds("cpu", [shard |-> s, type |-> "limit"], FieldOrZero(c, "limit"))
                /\ Holds("cpu", [shard |-> s, type |-> "bucket"], FieldOrZero(c, "bucket"))
                /\ HoldsProgress("gcl", s, FieldOrEmpty(d, "gcl"))
                /\ HoldsProgress("gpl", s, FieldOrEmpty(d, "gpl"))

\* A shard whose snapshot carries no tick and no gpl progress is exported with 0,
\* in the first successful cycle.
C10_Witness ==
    /\ CycleSucceeded
    /\ variant = "segment"
    /\ store0["tick"] = EmptyMap
    /\ \E n \in 1..Len(shards) :
          /\ "tick" \notin DOMAIN Snapshot(shards[n])
          /\ Holds("tick", [shard |-> shards[n]], 0)
          /\ Holds("gpl", [shard |-> shards[n], type |-> "progress"], 0)

\* The cycle that just returned started from the empty store with the account
\* summary {money: 100, resources: {energy: 50}, cpuShard: {shard0: 20}}, no
\* market orders and the one shard shard0 with the one room W1N1.
EndToEndCase ==
    /\ CycleSucceeded
    /\ variant = "segment"
    /\ shards = <<"shard0">>
    /\ store0 = EmptyStore
    /\ lastGood.authMe = [Money |-> 100, Resources |-> [energy |-> 50],
                          CPUShard |-> [shard0 |-> 20]]
    /\ \A s \in DOMAIN lastGood.orders.Shards : Len(lastGood.orders.Shards[s]) = 0
    /\ LET rooms == lastGood.statsMap["shard0"].Rooms
       IN  /\ DOMAIN rooms = {"W1N1"}
           /\ rooms["W1N1"].RCL.Level = 3
           /\ rooms["W1N1"].Creeps = 5
           /\ rooms["W1N1"].EnergyAvailable = 200
           /\ rooms["W1N1"].EnergyCapacityAvailable = 500

(***************************************************************************)
(* C11.  End-to-end projection: from an empty store, one successful cycle  *)
(* with the account summary {money: 100, resources: {energy: 50},          *)
(* cpuShard: {shard0: 20}}, no market orders and the one configured shard  *)
(* shard0 with the one room W1N1 (rcl.level 3, creeps 5, energyAvailable   *)
(* 200, energyCapacityAvailable 500) leaves the store with                 *)
(* resources{intershard,money} = 100, resources{intershard,energy} = 50,   *)
(* cpu_shard{shard0} = 20, rcl{shard0,W1N1,level} = 3,                     *)
(* creeps{shard0,W1N1} = 5, energy{shard0,W1N1,available} = 200 and        *)
(* energy{shard0,W1N1,capacityAvailable} = 500.                            *)
(***************************************************************************)
C11_EndToEndProjection ==
    EndToEndCase =>
        /\ Holds("resources", [shard |-> "intershard", type |-> "money"], 100)
        /\ Holds("resources", [shard |-> "intershard", type |-> "energy"], 50)
        /\ Holds("cpu_shard", [shard |-> "shard0"], 20)
        /\ Holds("rcl", [shard |-> "shard0", room |-> "W1N1", type |-> "level"], 3)
        /\ Holds("creeps", [shard |-> "shard0", room |-> "W1N1"], 5)
        /\ Holds("energy", [shard |-> "shard0", room |-> "W1N1", type |-> "available"], 200)
        /\ Holds("energy", [shard |-> "shard0", room |-> "W1N1",
                            type |-> "capacityAvailable"], 500)

\* That cycle has returned and observed its duration.
C11_Witness == EndToEndCase /\ observed

(***************************************************************************)
(* C12.  Processing duration is recorded only on success: a cycle observes *)
(* its duration exactly when every fetch of it was answered well, it does  *)
(* so after the store calls on every gauge and as its last action (the     *)
(* cycle has returned), an aborted cycle observes nothing, and the number  *)
(* of observations made so far equals the number of successful cycles.     *)
(***************************************************************************)
C12_DurationOnlyOnSuccess ==
    /\ observed =>
          /\ Returned
          /\ AllFetched /\ ~SomeFetchFailed
          /\ \A g \in DOMAIN firstOp : firstOp[g] /= "none"
    /\ Returned => (observed <=> (AllFetched /\ ~SomeFetchFailed))
    /\ balance = 0

\* A successful cycle that was not the first to fill the store has observed.
C12_Witness ==
    /\ Returned
    /\ observed
    /\ store0 /= EmptyStore
    /\ store0 /= store

(***************************************************************************)
(* C13.  Level coercion, as claimed: under both decoding strategies a      *)
(* level field (gcl, gpl, rcl) decodes whether it arrives as the integer   *)
(* literal n or as the float literal n.0, and is exported with the value   *)
(* n; the float form never makes the decode fail.                          *)
(***************************************************************************)
C13_LevelCoercion ==
    /\ pc /= "failed"
    /\ pc = "done" =>
          Holds(LevelGauge,
                [t \in DOMAIN LevelBase \cup {"type"} |->
                    IF t = "type" THEN "level" ELSE LevelBase[t]],
                LevelLiteral.digits)

(***************************************************************************)
(* C14.  Bounded inconsistency window for scrapes: a scrape that reads the *)
(* store while the loop is idle, or in the fetch phase of a cycle (where   *)
(* every cycle that ends in failure stays), finds every series of the      *)
(* state the last successful cycle projected.  (That a scrape between a    *)
(* gauge's Reset and its repopulation misses a series that exists before   *)
(* and after the cycle is the reachable state C14_Witness.)                *)
(***************************************************************************)
C14_ScrapeOutsideWritePhase ==
    (scraped /= <<>> /\ lastGood /= NoFetch /\ (Idle \/ pc \in FetchPositions)) =>
        LET last == Project(EmptyStore, lastGood)
        IN  \A g \in DOMAIN last : DOMAIN last[g] \subseteq DOMAIN scraped[1][g]

\* A scrape in the write phase of a cycle read a gauge without a series that
\* the store held before the cycle and holds again after it.
C14_Witness ==
    /\ scraped /= <<>>
    /\ Writing
    /\ \E g \in DOMAIN store0 :
          \E l \in DOMAIN store0[g] :
              /\ l \notin DOMAIN scraped[1][g]
              /\ l \in DOMAIN Project(store0, Fetched)[g]

\* The resource the k-th request of a cycle is for.
ResourceAt(k) ==
    IF variant = "history" THEN [endpoint |-> "user/memory", shard |-> shards[1]]
    ELSE IF k = 1 THEN [endpoint |-> "auth/me", shard |-> ""]
    ELSE IF k = 2 THEN [endpoint |-> "game/market/my-orders", shard |-> ""]
    ELSE [endpoint |-> "user/memory-segment", shard |-> shards[k - 2]]

(***************************************************************************)
(* C15.  One call per resource, no retry within a cycle: the requests of   *)
(* a cycle are, in this order, at most one for the account summary, at     *)
(* most one for the market orders and at most one memory fetch per entry   *)
(* of the configured shard list, in configuration order; and a request     *)
(* that failed is the last request of its cycle, which has ended.          *)
(***************************************************************************)
C15_OneCallPerResource ==
    /\ Len(requests) <= (IF variant = "segment" THEN 2 + Len(shards) ELSE 1)
    /\ \A k \in DOMAIN requests :
          /\ requests[k].endpoint = ResourceAt(k).endpoint
          /\ requests[k].shard = ResourceAt(k).shard
          /\ requests[k].outcome /= "ok" =>
                /\ k = Len(requests)
                /\ pc \in {"sleep", "panic"}

\* The fetch of the second of two shards failed: four requests, the cycle is over.
C15_Witness ==
    /\ Returned
    /\ Len(shards) = 2
    /\ Len(requests) = 4
    /\ requests[3].shard = "shard0"
    /\ requests[4].shard = "shard1"
    /\ requests[4].outcome = "transport error"

\* The compressed-history cycle that just returned had its fetch answered well.
HistoryCycleSucceeded == variant = "history" /\ CycleSucceeded /\ Len(requests) = 1

(***************************************************************************)
(* C16.  The compressed-history program exports the newest snapshot: a     *)
(* cycle whose response decodes to a non-empty history list, its data      *)
(* string carrying the "gz:" prefix or not, observes its duration and      *)
(* leaves the store it started from with exactly the store calls of the    *)
(* last element of the list applied, whatever the earlier elements are.    *)
(***************************************************************************)
C16_NewestSnapshot ==
    HistoryCycleSucceeded =>
        LET h == lastGood.docs[shards[1]]["stats"]["history"]
            newest == [s \in {shards[1]} |-> DecodeStatsHistory(h[Len(h)])]
        IN  /\ observed
            /\ store = Project(store0, [lastGood EXCEPT !.statsMap = newest])

\* A prefixed response with two different snapshots, after an earlier cycle.
C16_Witness ==
    /\ HistoryCycleSucceeded
    /\ requests[1].prefixed
    /\ store0 /= EmptyStore
    /\ LET h == lastGood.docs[shards[1]]["stats"]["history"]
       IN  Len(h) = 2 /\ h[1] /= h[2]

(***************************************************************************)
(* C17.  A hung fetch stalls the loop: once a request of a cycle is never  *)
(* answered, the goroutine stays inside that call of updateStats at the    *)
(* fetch, no later cycle is started, no request is made and the store is   *)
(* never modified again: it keeps what it held when the cycle started,     *)
(* the projection of the last successful cycle.  No step of the loop       *)
(* leaves the hung state.                                                  *)
(***************************************************************************)
C17_HungFetchStalls ==
    /\ [](hung =>
            /\ pc \in FetchPositions
            /\ active = 1
            /\ store = store0
            /\ lastGood /= NoFetch => store = Project(EmptyStore, lastGood))
    /\ [][hung => /\ hung'
                  /\ pc' = pc
                  /\ active' = active
                  /\ requests' = requests
                  /\ store' = store]_vars

\* A shard fetch hangs in a cycle that follows a successful one.
C17_Witness ==
    /\ hung
    /\ pc = "shard"
    /\ Len(requests) = 2
    /\ lastGood /= NoFetch
    /\ store["rcl"] /= EmptyMap

\* The account step with its two ranges in the orders SomeOrder picks.
AccountWritesInSomeOrder ==
    AccountWrites(authMe, SomeOrder(DOMAIN authMe.CPUShard),
                  SomeOrder(DOMAIN authMe.Resources))

(***************************************************************************)
(* C18.  Write order does not matter: whatever orders the ranges over the  *)
(* cpuShard, resources, market-order-shard, rooms, structures, storage and *)
(* terminal maps took, the store after a successful cycle is the one the   *)
(* same fetched data and the same prior store give with one fixed choice   *)
(* of orders; likewise the store after the account step alone.             *)
(***************************************************************************)
C18_WriteOrderIrrelevant ==
    /\ CycleSucceeded => store = Project(store0, lastGood)
    /\ pc = "market" =>
          store = ApplyAll(store0, ResetWrites \o AccountWritesInSomeOrder)

\* The account step ranged over cpuShard or resources in another order than
\* the fixed one.
C18_Witness ==
    /\ pc = "market"
    /\ Len(writes) = 5
    /\ writes /= AccountWritesInSomeOrder

(***************************************************************************)
(* C19.  Idle store equals the last successful snapshot: whenever the loop *)
(* is idle after at least one successful cycle, every gauge holds exactly  *)
(* what projecting the account summary, market orders and shard states of  *)
(* the most recent successful cycle onto an empty store gives, whatever    *)
(* successful and failed cycles came before.                               *)
(***************************************************************************)
C19_IdleStoreIsLastSnapshot ==
    (Idle /\ lastGood /= NoFetch) => store = Project(EmptyStore, lastGood)

\* A cycle failed after a successful one.
C19_Witness ==
    /\ variant = "segment"
    /\ Returned
    /\ lastErr /= "nil"
    /\ lastGood /= NoFetch
    /\ store["rcl"] /= EmptyMap
    /\ store["resources"] /= EmptyMap

(***************************************************************************)
(* C20.  Money series reflects the account's money, as claimed: after      *)
(* every successful cycle the series resources{shard="intershard",         *)
(* type="money"} has the value of the account summary's money field,       *)
(* whatever the resources map holds, a key named "money" included.         *)
(***************************************************************************)
C20_MoneySeries ==
    (CycleSucceeded /\ variant = "segment") =>
        Holds("resources", [shard |-> "intershard", type |-> "money"],
              lastGood.authMe.Money)

(***************************************************************************)
(* C21.  Every market order is visible in the store, as claimed: after     *)
(* every successful cycle the market_orders gauge holds exactly 4 series   *)
(* per order of the fetched response, each with that order's own price,    *)
(* amount, remainingAmount and totalAmount, also when two orders of one    *)
(* shard have the same roomName, resourceType and type; no order's values  *)
(* are overwritten by another order's.                                     *)
(***************************************************************************)
\* The (shard, position, metric) triples of the orders of the last
\* successful cycle.
GoodOrderSlots ==
    UNION {{<<s, n, m>> : n \in 1..Len(lastGood.orders.Shards[s]), m \in Metrics} :
           s \in DOMAIN lastGood.orders.Shards}

\* The series of the order at slot t and the value the order has for it.
GoodOrderSeries(t) ==
    LET o == lastGood.orders.Shards[t[1]][t[2]]
    IN  [labels |-> [shard |-> t[1], room |-> o.RoomName, type |-> o.ResourceType,
                     order_type |-> o.Type, metric |-> t[3]],
         value |-> MetricValue(o, t[3])]

C21_EveryOrderVisible ==
    (CycleSucceeded /\ variant = "segment") =>
        /\ Cardinality(DOMAIN store["market_orders"]) = Cardinality(GoodOrderSlots)
        /\ \A t \in GoodOrderSlots :
              Holds("market_orders", GoodOrderSeries(t).labels, GoodOrderSeries(t).value)

====
